---- MODULE Spec2Model ----
(***************************************************************************)
(* NameNest: the User credential model (app/models.py), the user loader    *)
(* and the asynchronous e-mail dispatch (app/emails.py).                   *)
(*                                                                         *)
(* Python values are records [t, v]: t is the Python type name and v the   *)
(* content as a sequence of integers (code points of a str, bytes of a     *)
(* bytes object, the single number of an int, empty for None).  Two values *)
(* are equal as Python 3 values iff the records are equal, so 'a' and b'a' *)
(* are different values.                                                   *)
(*                                                                         *)
(* werkzeug's hashing primitive is outside the repository.  It is modelled *)
(* by its contract, idealised in the usual symbolic way: the digest is an  *)
(* injective function of (salt, bytes of the password), and gen_salt never *)
(* returns a salt it returned before.                                      *)
(***************************************************************************)
EXTENDS Integers, Sequences, FiniteSets, TLC

\* ------------------------------------------------------------------ bounds
\* Number of salts gen_salt may draw, i.e. of password setter calls.
MaxSalts == 2
\* Number of User objects.
NumUsers == 2
\* Number of send_async_email calls.
MaxCalls == 2

\* ------------------------------------------------------------------ values
StrV(s) == [t |-> "str", v |-> s]
BytesV(s) == [t |-> "bytes", v |-> s]
IntV(n) == [t |-> "int", v |-> <<n>>]
BoolV(b) == [t |-> "bool", v |-> <<IF b THEN 1 ELSE 0>>]
NoneV == [t |-> "NoneType", v |-> <<>>]

\* str.encode('utf-8'), one code point at a time.
RECURSIVE Utf8(_)
Utf8(s) ==
    IF s = <<>> THEN <<>>
    ELSE LET c == Head(s)
         IN  (IF c < 128 THEN <<c>>
              ELSE <<192 + (c \div 64), 128 + (c % 64)>>) \o Utf8(Tail(s))

\* The text passwords tried: '', 'a' and U+00E9 (two bytes in UTF-8).
Strs == {StrV(<<>>), StrV(<<97>>), StrV(<<233>>)}
\* The same passwords handed over as bytes objects.
Byteses == {BytesV(Utf8(x.v)) : x \in Strs}
\* Values with no byte form: None and an int.
Unhashable == {NoneV, IntV(5)}
\* Everything a caller may hand to the password setter or to verify_password.
PasswordInputs == Strs \cup Byteses \cup Unhashable

Users == 1..NumUsers
Calls == 1..MaxCalls
\* A send_async_email call that has not been made.
NoCall == [pc |-> "idle", out |-> "none", handle |-> 0, msg |-> <<>>]
\* The user name User object u is created with: 'a', 'aa', ...
NameOf(u) == StrV([i \in 1..u |-> 97])

VARIABLES
    users,      \* users[u]: the columns of User object u
    drawn,      \* how many salts gen_salt has returned
    log,        \* history: the successful password setter calls, in order
    appctx,     \* whether an application context is pushed
    nextId,     \* the storage layer's next primary key
    table,      \* the User objects that have a row in the users table
    last,       \* history: the last operation, its argument and its outcome
    calls,      \* calls[c]: send_async_email call c, as its caller sees it
    threads,    \* the threads started so far, in order of their start
    delivered   \* delivered[c]: how often the transport sent call c's message

credVars == <<users, drawn, log>>
dirVars == <<appctx, nextId, table>>
mailVars == <<calls, threads, delivered>>
vars == <<users, drawn, log, appctx, nextId, table, last, calls, threads,
          delivered>>

\* ------------------------------------------------------- werkzeug.security
\* The bytes the hashing primitive works on: text is encoded as UTF-8, bytes
\* are taken as they are, anything else has no byte form (TypeError).
Hashable(password) == password.t \in {"str", "bytes"}

ToBytes(password) ==
    IF password.t = "str" THEN Utf8(password.v) ELSE password.v

\* Idealised hex digest: injective in (salt, data) for salts of one length.
\* Digest symbols lie outside the range of bytes and of the alphabet.
Hexdigest(salt, data) ==
    LET m == salt \o data IN [i \in 1..Len(m) |-> 256 + m[i]]

\* gen_salt(): the k-th salt drawn, one character of SALT_CHARS ('0', '1', ...).
gen_salt(k) == <<48 + k>>

\* generate_password_hash: 'method$salt$digest' as a str.
generate_password_hash(password, salt) ==
    StrV(<<112>> \o <<36>> \o salt \o <<36>> \o Hexdigest(salt, ToBytes(password)))

\* Positions of '$' in a string.
Dollars(s) == {i \in 1..Len(s) : s[i] = 36}
Min(S) == CHOOSE x \in S : \A y \in S : x <= y

\* check_password_hash: split at the first two '$', hash the candidate under
\* the stored salt, compare with the stored digest.  Fewer than two '$': False.
check_password_hash(pwhash, password) ==
    IF Cardinality(Dollars(pwhash.v)) < 2 THEN FALSE
    ELSE LET d1 == Min(Dollars(pwhash.v))
             d2 == Min(Dollars(pwhash.v) \ {d1})
             salt == SubSeq(pwhash.v, d1 + 1, d2 - 1)
             hashval == SubSeq(pwhash.v, d2 + 1, Len(pwhash.v))
         IN  Hexdigest(salt, ToBytes(password)) = hashval

\* ------------------------------------------------------------- class User
\* User(username=...): the columns of a new, unsaved User.
NewUser(name) ==
    [id |-> NoneV, username |-> name, email |-> NoneV, role_id |-> NoneV,
     password_hash |-> NoneV, confirmed |-> BoolV(FALSE)]

Columns == {"id", "username", "email", "role_id", "password_hash", "confirmed"}

\* The password getter: what reading user.password gives the caller.
GetterReturnsHash(user) == [out |-> "value", val |-> user.password_hash]
password_getter(user) == [out |-> "AttributeError", val |-> NoneV]

\* The password setter: the user after `user.password = password`, and what
\* the caller sees.  The hash is computed first; on TypeError nothing is
\* assigned.
SetterStoresPlaintext(user, password, salt) ==
    IF Hashable(password)
    THEN [user |-> [user EXCEPT !.password_hash = password], out |-> "None"]
    ELSE [user |-> user, out |-> "TypeError"]
SetterFixedSalt(user, password, salt) ==
    IF Hashable(password)
    THEN [user |-> [user EXCEPT !.password_hash =
                        generate_password_hash(password, <<48>>)],
          out |-> "None"]
    ELSE [user |-> user, out |-> "TypeError"]
SetterClearsOnError(user, password, salt) ==
    IF Hashable(password)
    THEN [user |-> [user EXCEPT !.password_hash =
                        generate_password_hash(password, salt)],
          out |-> "None"]
    ELSE [user |-> [user EXCEPT !.password_hash = NoneV], out |-> "TypeError"]
password_setter(user, password, salt) ==
    IF Hashable(password)
    THEN [user |-> [user EXCEPT !.password_hash =
                        generate_password_hash(password, salt)],
          out |-> "None"]
    ELSE [user |-> user, out |-> "TypeError"]

\* verify_password: None has no count() (AttributeError, not caught), an
\* unhashable candidate is a TypeError, otherwise the comparison's result.
VerifyComparesPlain(user, password) ==
    IF user.password_hash = NoneV THEN "AttributeError"
    ELSE IF ~Hashable(password) THEN "TypeError"
    ELSE IF user.password_hash = password THEN "True"
    ELSE "False"
VerifyAnyPassword(user, password) ==
    IF user.password_hash = NoneV THEN "AttributeError"
    ELSE IF ~Hashable(password) THEN "TypeError"
    ELSE "True"
verify_password(user, password) ==
    IF user.password_hash = NoneV THEN "AttributeError"
    ELSE IF ~Hashable(password) THEN "TypeError"
    ELSE IF check_password_hash(user.password_hash, password) THEN "True"
    ELSE "False"

Op(op, u, arg, out, ret) ==
    [op |-> op, u |-> u, arg |-> arg, out |-> out, ret |-> ret]

\* user.password = x
SetPassword(u, x) ==
    /\ drawn < MaxSalts
    /\ LET r == password_setter(users[u], x, gen_salt(drawn))
       IN  /\ users' = [users EXCEPT ![u] = r.user]
           /\ log' = IF r.out = "None"
                     THEN Append(log, [u |-> u, p |-> x,
                                       hash |-> r.user.password_hash])
                     ELSE log
           /\ last' = Op("set", u, x, r.out, 0)
    /\ drawn' = drawn + 1
    /\ UNCHANGED <<dirVars, mailVars>>

\* user.verify_password(x)
VerifyPassword(u, x) ==
    /\ last' = Op("verify", u, x, verify_password(users[u], x), 0)
    /\ UNCHANGED <<credVars, dirVars, mailVars>>

\* user.password
GetPassword(u) ==
    /\ last' = Op("get", u, password_getter(users[u]).val,
                  password_getter(users[u]).out, 0)
    /\ UNCHANGED <<credVars, dirVars, mailVars>>

Init ==
    /\ users = [u \in Users |-> NewUser(NameOf(u))]
    /\ drawn = 0
    /\ log = <<>>
    /\ appctx = FALSE
    /\ nextId = 1
    /\ table = {}
    /\ last = Op("none", 0, NoneV, "None", 0)
    /\ calls = [c \in Calls |-> NoCall]
    /\ threads = <<>>
    /\ delivered = [c \in Calls |-> 0]

\* The credential operations of class User.
NextCred ==
    \/ \E u \in Users, x \in PasswordInputs : SetPassword(u, x)
    \/ \E u \in Users, x \in PasswordInputs : VerifyPassword(u, x)
    \/ \E u \in Users : GetPassword(u)

Spec == Init /\ [][NextCred]_vars

\* ---------------------------------------------------- storage, load_user
\* What a caller may hand to load_user: ints, their decimal strings, a string
\* that is no number, and None.
LoadInputs ==
    {IntV(n) : n \in 0..(NumUsers + 1)}
        \cup {StrV(<<48 + n>>) : n \in 0..(NumUsers + 1)}
        \cup {StrV(<<97>>), StrV(<<>>), NoneV}

RECURSIVE ParseDigits(_)
ParseDigits(s) ==
    IF s = <<>> THEN 0
    ELSE 10 * ParseDigits(SubSeq(s, 1, Len(s) - 1)) + (s[Len(s)] - 48)

\* int(user_id): an int is itself, a non-empty string of digits its decimal
\* value, any other string a ValueError, any other type a TypeError.
PyInt(x) ==
    IF x.t = "int" THEN [out |-> "ok", n |-> x.v[1]]
    ELSE IF x.t \in {"str", "bytes"}
    THEN IF x.v # <<>> /\ \A i \in 1..Len(x.v) : x.v[i] \in 48..57
         THEN [out |-> "ok", n |-> ParseDigits(x.v)]
         ELSE [out |-> "ValueError", n |-> 0]
    ELSE [out |-> "TypeError", n |-> 0]

\* User.query.get(n): the User whose row has primary key n, 0 for None.
query_get(n) ==
    IF \E u \in table : users[u].id = IntV(n)
    THEN CHOOSE u \in table : users[u].id = IntV(n)
    ELSE 0

\* load_user(user_id): User.query needs an application context (RuntimeError
\* without one) and is evaluated before int(user_id).
LoadUserRaisesNotFound(user_id) ==
    IF ~appctx THEN [out |-> "RuntimeError", ret |-> 0]
    ELSE IF PyInt(user_id).out # "ok" THEN [out |-> PyInt(user_id).out, ret |-> 0]
    ELSE LET u == query_get(PyInt(user_id).n)
         IN  [out |-> IF u = 0 THEN "NoResultFound" ELSE "user", ret |-> u]
load_user(user_id) ==
    IF ~appctx THEN [out |-> "RuntimeError", ret |-> 0]
    ELSE IF PyInt(user_id).out # "ok" THEN [out |-> PyInt(user_id).out, ret |-> 0]
    ELSE LET u == query_get(PyInt(user_id).n)
         IN  [out |-> IF u = 0 THEN "None" ELSE "user", ret |-> u]

LoadUser(x) ==
    /\ last' = Op("load", 0, x, load_user(x).out, load_user(x).ret)
    /\ UNCHANGED <<credVars, dirVars, mailVars>>

\* app.app_context().push() / .pop()
PushContext ==
    /\ ~appctx
    /\ appctx' = TRUE
    /\ last' = Op("push", 0, NoneV, "None", 0)
    /\ UNCHANGED <<credVars, nextId, table, mailVars>>

PopContext ==
    /\ appctx
    /\ appctx' = FALSE
    /\ last' = Op("pop", 0, NoneV, "None", 0)
    /\ UNCHANGED <<credVars, nextId, table, mailVars>>

\* db.session.add(user); db.session.commit(): the storage layer gives the new
\* row the next primary key.
Insert(u) ==
    /\ appctx
    /\ users[u].id = NoneV
    /\ users' = [users EXCEPT ![u].id = IntV(nextId)]
    /\ nextId' = nextId + 1
    /\ table' = table \cup {u}
    /\ last' = Op("insert", u, NoneV, "None", 0)
    /\ UNCHANGED <<drawn, log, appctx, mailVars>>

\* db.session.delete(user); db.session.commit(): the row goes, the object
\* keeps its id.
Delete(u) ==
    /\ appctx
    /\ u \in table
    /\ table' = table \ {u}
    /\ last' = Op("delete", u, NoneV, "None", 0)
    /\ UNCHANGED <<credVars, appctx, nextId, mailVars>>

\* The user directory: storage and load_user.
NextDir ==
    \/ PushContext
    \/ PopContext
    \/ \E u \in Users : Insert(u)
    \/ \E u \in Users : Delete(u)
    \/ \E x \in LoadInputs : LoadUser(x)

SpecDir == Init /\ [][NextDir]_vars

\* ------------------------------------------------------------ emails.py
\* The templates the renderer finds.
Templates == {"confirm.txt", "confirm.html"}
\* The template names callers pass.
TemplateNames == {"confirm", "missing"}

\* Message(prefix + ' ' + subject, sender=..., recipients=[recipient]) with
\* its two rendered bodies.
Message(recipient, subject, template) ==
    [subject |-> <<"[NameNest]", " ", subject>>,
     sender |-> "NameNest Admin <namenest@gmail.com>",
     recipients |-> <<recipient>>,
     body |-> <<template, ".txt">>,
     html |-> <<template, ".html">>]

\* render_template(name): fails when the template is not found.
Renders(template) ==
    {template \o ".txt", template \o ".html"} \subseteq Templates

\* send_async_email up to the rendered message: current_app needs an
\* application context (RuntimeError), render_template may fail; both are
\* raised in the caller, before any thread exists.
BuildMessage(c, recipient, subject, template) ==
    /\ calls[c].pc = "idle"
    /\ calls' = [calls EXCEPT ![c] =
          IF ~appctx
          THEN [pc |-> "raised", out |-> "RuntimeError", handle |-> 0,
                msg |-> <<>>]
          ELSE IF ~Renders(template)
          THEN [pc |-> "raised", out |-> "TemplateError", handle |-> 0,
                msg |-> <<>>]
          ELSE [pc |-> "built", out |-> "none", handle |-> 0,
                msg |-> <<Message(recipient, subject, template)>>]]
    /\ UNCHANGED <<credVars, dirVars, last, threads, delivered>>

\* thread = Thread(target=send_email, args=[app, msg]); thread.start()
StartThread(c) ==
    /\ calls[c].pc = "built"
    /\ threads' = Append(threads, [call |-> c, app |-> "Flask",
                                   pc |-> "started", scope |-> FALSE,
                                   attempts |-> 0])
    /\ calls' = [calls EXCEPT ![c].pc = "started",
                              ![c].handle = Len(threads) + 1]
    /\ UNCHANGED <<credVars, dirVars, last, delivered>>

\* return thread
ReturnAfterJoin(c) ==
    /\ calls[c].pc = "started"
    /\ threads[calls[c].handle].pc \in {"done", "died"}
    /\ calls' = [calls EXCEPT ![c].pc = "returned", ![c].out = "thread"]
    /\ UNCHANGED <<credVars, dirVars, last, threads, delivered>>
ReturnThread(c) ==
    /\ calls[c].pc = "started"
    /\ calls' = [calls EXCEPT ![c].pc = "returned", ![c].out = "thread"]
    /\ UNCHANGED <<credVars, dirVars, last, threads, delivered>>

\* send_email(app, msg) called by a caller itself, with whatever it passes as
\* app: a Flask application or an object that is none (None).
DirectSend(c, app) ==
    /\ calls[c].pc = "idle"
    /\ threads' = Append(threads, [call |-> c, app |-> app, pc |-> "started",
                                   scope |-> FALSE, attempts |-> 0])
    /\ calls' = [calls EXCEPT ![c] =
          [pc |-> "direct", out |-> "none", handle |-> Len(threads) + 1,
           msg |-> <<Message("a@example.com", "Confirm", "confirm")>>]]
    /\ UNCHANGED <<credVars, dirVars, last, delivered>>

\* send_email in thread t: with app.app_context(): on an object that is no
\* application the attribute lookup raises, before the body of the with.
ScopeFails(t) ==
    /\ t \in DOMAIN threads
    /\ threads[t].pc = "started"
    /\ threads[t].app # "Flask"
    /\ threads' = [threads EXCEPT ![t].pc = "died"]
    /\ UNCHANGED <<credVars, dirVars, last, calls, delivered>>

\* send_email in thread t: with app.app_context(): the context of app is
\* pushed.
EnterScopeSkipped(t) ==
    /\ t \in DOMAIN threads
    /\ threads[t].pc = "started"
    /\ threads' = [threads EXCEPT ![t].pc = "in_scope"]
    /\ UNCHANGED <<credVars, dirVars, last, calls, delivered>>
EnterScope(t) ==
    /\ t \in DOMAIN threads
    /\ threads[t].pc = "started"
    /\ threads[t].app = "Flask"
    /\ threads' = [threads EXCEPT ![t].pc = "in_scope", ![t].scope = TRUE]
    /\ UNCHANGED <<credVars, dirVars, last, calls, delivered>>

\* mail.send(msg): the blocking call to the transport, which delivers the
\* message or raises.
MailSendPropagates(t, ok) ==
    /\ t \in DOMAIN threads
    /\ threads[t].pc = "in_scope"
    /\ threads' = [threads EXCEPT ![t].pc = IF ok THEN "sent" ELSE "error",
                                  ![t].attempts = @ + 1]
    /\ delivered' = IF ok
                    THEN [delivered EXCEPT ![threads[t].call] = @ + 1]
                    ELSE delivered
    /\ calls' = IF ok THEN calls
                ELSE [calls EXCEPT ![threads[t].call].pc = "raised",
                                   ![threads[t].call].out = "TransportError"]
    /\ UNCHANGED <<credVars, dirVars, last>>
MailSendRetriesOnce(t, ok) ==
    /\ t \in DOMAIN threads
    /\ threads[t].pc = "in_scope"
    /\ threads' = [threads EXCEPT
          ![t].pc = IF ok THEN "sent"
                    ELSE IF threads[t].attempts = 0 THEN "in_scope"
                    ELSE "error",
          ![t].attempts = @ + 1]
    /\ delivered' = IF ok
                    THEN [delivered EXCEPT ![threads[t].call] = @ + 1]
                    ELSE delivered
    /\ UNCHANGED <<credVars, dirVars, last, calls>>
MailSend(t, ok) ==
    /\ t \in DOMAIN threads
    /\ threads[t].pc = "in_scope"
    /\ threads' = [threads EXCEPT ![t].pc = IF ok THEN "sent" ELSE "error",
                                  ![t].attempts = @ + 1]
    /\ delivered' = IF ok
                    THEN [delivered EXCEPT ![threads[t].call] = @ + 1]
                    ELSE delivered
    /\ UNCHANGED <<credVars, dirVars, last, calls>>

\* Leaving the with block: the context is popped; an exception of mail.send
\* leaves send_email and ends the thread, which nobody joins.
ExitScope(t) ==
    /\ t \in DOMAIN threads
    /\ threads[t].pc \in {"sent", "error"}
    /\ threads' = [threads EXCEPT
          ![t].pc = IF threads[t].pc = "sent" THEN "done" ELSE "died",
          ![t].scope = FALSE]
    /\ UNCHANGED <<credVars, dirVars, last, calls, delivered>>


\* One thread's next step.
ThreadStep(t) ==
    \/ EnterScope(t)
    \/ ScopeFails(t)
    \/ \E ok \in BOOLEAN : MailSend(t, ok)
    \/ ExitScope(t)

\* The e-mail dispatch: callers and the threads they start.
NextMail ==
    \/ PushContext
    \/ PopContext
    \/ \E c \in Calls, template \in TemplateNames :
          BuildMessage(c, "a@example.com", "Confirm", template)
    \/ \E c \in Calls : StartThread(c)
    \/ \E c \in Calls : ReturnThread(c)
    \/ \E t \in Calls : EnterScope(t)
    \/ \E t \in Calls, ok \in BOOLEAN : MailSend(t, ok)
    \/ \E t \in Calls : ExitScope(t)

SpecMail == Init /\ [][NextMail]_vars

\* The e-mail dispatch together with callers that call send_email themselves.
NextSend ==
    \/ NextMail
    \/ \E c \in Calls, app \in {"Flask", "NoneType"} : DirectSend(c, app)
    \/ \E t \in Calls : ScopeFails(t)

SpecSend == Init /\ [][NextSend]_vars

\* The operating system schedules every started thread, and the transport
\* call returns or raises.
SpecMailLive == SpecMail /\ \A t \in Calls : WF_vars(ThreadStep(t))

\* ------------------------------------------------ credential properties
\* The successful setter calls on user u, as positions in the log.
SetsOf(u) == {i \in DOMAIN log : log[i].u = u}
HasSet(u) == SetsOf(u) # {}
Max(S) == CHOOSE x \in S : \A y \in S : y <= x
\* The password of the latest successful setter call on u.
LastSet(u) == log[Max(SetsOf(u))].p

\* C1: verify_password(u, p) returns True whenever p is the password of the
\* latest successful setter call on u.
C1_SetThenVerify ==
    (last.op = "verify" /\ HasSet(last.u) /\ last.arg = LastSet(last.u))
        => last.out = "True"

\* C1 witness: a verify of the current password came back True after the
\* password had been set.
C1_Witness ==
    /\ last.op = "verify" /\ HasSet(last.u)
    /\ last.arg = LastSet(last.u) /\ last.out = "True"

C3_GetterDenied ==
    [][last'.op = "get" =>
          /\ last'.out = "AttributeError"
          /\ last'.arg = NoneV
          /\ users' = users]_vars

\* C3 witness: the password of a user whose password was changed was read.
C3_Witness ==
    /\ last.op = "get" /\ last.out = "AttributeError"
    /\ Cardinality(SetsOf(last.u)) >= 2

\* C4: two successful setter calls with the same password, on the same user
\* or on two users, stored different hash strings.
C4_FreshHashes ==
    \A i, j \in DOMAIN log :
        (i # j /\ log[i].p = log[j].p) => log[i].hash # log[j].hash

\* C4 witness: two users were given the same password and hold different
\* hashes.
C4_Witness ==
    \E i, j \in DOMAIN log :
        /\ log[i].u # log[j].u /\ log[i].p = log[j].p
        /\ users[log[i].u].password_hash # users[log[j].u].password_hash

\* C5 as stated: once a password p is set, password_hash is non-empty and no
\* column of the user equals p.
C5_Original ==
    \A u \in Users :
        HasSet(u) =>
            /\ users[u].password_hash \notin {NoneV, StrV(<<>>)}
            /\ \A c \in Columns : users[u][c] # LastSet(u)

\* C5 amended: a successful setter call stores a non-empty password_hash
\* different from p and leaves every other column as it was; no setter call
\* writes another column.
C5_OnlyHashWritten ==
    [][last'.op = "set" =>
          /\ \A c \in Columns \ {"password_hash"} :
                users'[last'.u][c] = users[last'.u][c]
          /\ last'.out = "None" =>
                /\ users'[last'.u].password_hash \notin {NoneV, StrV(<<>>)}
                /\ users'[last'.u].password_hash # last'.arg]_vars

\* C5 witness: the setter stored the hash of a password that equals the
\* user's name, and the name is still there.
C5_Witness ==
    /\ last.op = "set" /\ last.out = "None"
    /\ users[last.u].username = last.arg
    /\ users[last.u].password_hash \notin {NoneV, StrV(<<>>), last.arg}

\* C9: the setter called with a value that has no byte form raises TypeError
\* and changes no user, so the password set before still verifies.
C9_UnhashableRejected ==
    [][(last'.op = "set" /\ ~Hashable(last'.arg)) =>
          /\ last'.out = "TypeError"
          /\ users' = users
          /\ HasSet(last'.u) =>
                verify_password(users'[last'.u], LastSet(last'.u)) = "True"]_vars

\* C9 witness: the setter was refused on a user that had a password.
C9_Witness ==
    /\ last.op = "set" /\ last.out = "TypeError" /\ ~Hashable(last.arg)
    /\ HasSet(last.u)

\* ------------------------------------------------- directory properties
\* C6: with an application context, load_user(id) returns None and raises
\* nothing when no stored user has that id, returns a stored user whose id is
\* the requested one when there is one, and changes no user and no row.
C6_LoadUser ==
    [][(last'.op = "load" /\ appctx /\ PyInt(last'.arg).out = "ok") =>
          /\ users' = users /\ table' = table
          /\ IF \E u \in table : users[u].id = IntV(PyInt(last'.arg).n)
             THEN /\ last'.out = "user"
                  /\ last'.ret \in table
                  /\ users[last'.ret].id = IntV(PyInt(last'.arg).n)
             ELSE last'.out = "None" /\ last'.ret = 0]_vars

\* C6 witness: with one row deleted and one row stored, load_user found the
\* stored user from the decimal string of its id.
C6_Witness ==
    /\ last.op = "load" /\ last.out = "user" /\ last.arg.t = "str"
    /\ users[last.ret].id = IntV(PyInt(last.arg).n)
    /\ \E u \in Users : users[u].id # NoneV /\ u \notin table

\* ------------------------------------------------------ e-mail properties
\* The threads started by call c.
ThreadsOf(c) == {t \in DOMAIN threads : threads[t].call = c}
Terminated(t) == t \in DOMAIN threads /\ threads[t].pc \in {"done", "died"}

\* C7: once the thread is started the caller's return is enabled, whether
\* the thread has not begun its send, is in it, or has finished.
C7_ReturnNotBlocked ==
    \A c \in Calls : calls[c].pc = "started" => ENABLED ReturnThread(c)

\* C7 witness: one caller got its handle while its thread was inside the
\* send, another while its thread had not begun.
C7_Witness ==
    \E c1, c2 \in Calls :
        /\ calls[c1].pc = "returned" /\ calls[c1].out = "thread"
        /\ threads[calls[c1].handle].pc = "in_scope"
        /\ calls[c2].pc = "returned" /\ calls[c2].out = "thread"
        /\ threads[calls[c2].handle].pc = "started"

\* C8 as stated: neither a transport error nor a template-render error
\* reaches the caller of send_async_email.
C8_Original ==
    \A c \in Calls : calls[c].out \notin {"TransportError", "TemplateError"}

\* C8 amended: a transport error stays in the thread: a call that started a
\* thread does not raise and returns its handle.  A call raises only before
\* it starts a thread, when there is no application context or a template
\* fails to render.
C8_TransportConfined ==
    \A c \in Calls :
        /\ calls[c].out # "TransportError"
        /\ calls[c].pc = "raised" =>
              /\ calls[c].out \in {"RuntimeError", "TemplateError"}
              /\ ThreadsOf(c) = {}
        /\ ThreadsOf(c) # {} => calls[c].pc \in {"started", "returned"}
        /\ calls[c].pc = "returned" => calls[c].out = "thread"

\* C8 witness: the transport failed in a thread whose caller got its handle.
C8_Witness ==
    \E c \in Calls :
        /\ calls[c].pc = "returned" /\ calls[c].out = "thread"
        /\ threads[calls[c].handle].pc = "died"

\* What C10 says of every state: a returned call started exactly one thread,
\* the one it returned, and threads exist only for calls that started one;
\* a thread calls the transport at most once, has called it once when it
\* ends, and takes no step after its end; no message is sent twice.
C10_State ==
    /\ \A c \in Calls :
          /\ calls[c].pc = "returned" =>
                /\ Cardinality(ThreadsOf(c)) = 1
                /\ calls[c].handle \in ThreadsOf(c)
          /\ Cardinality(ThreadsOf(c)) <= 1
          /\ delivered[c] <= 1
    /\ \A t \in DOMAIN threads :
          /\ threads[t].attempts <= 1
          /\ Terminated(t) =>
                threads[t].attempts = 1 /\ ~ENABLED ThreadStep(t)

\* C10: every returned call has spawned exactly one thread; each thread tries
\* its own message at most once, is not retried, and ends; no message is
\* delivered more than once.
C10_OneUnitOneAttempt ==
    /\ []C10_State
    /\ \A t \in Calls : (t \in DOMAIN threads) ~> Terminated(t)

\* C10 witness: two calls returned, one thread delivered its message once and
\* the other failed once, and both threads have ended.
C10_Witness ==
    \E c1, c2 \in Calls :
        /\ calls[c1].pc = "returned" /\ calls[c2].pc = "returned"
        /\ threads[calls[c1].handle].pc = "done" /\ delivered[c1] = 1
        /\ threads[calls[c2].handle].pc = "died" /\ delivered[c2] = 0

\* What C11 says of every state: a unit is inside a scope only if it was
\* given an application and is between entering and leaving; a unit that has
\* ended has left the scope; a unit given no application never enters a
\* scope, never calls the transport, delivers nothing and ends by raising.
C11_State ==
    \A t \in DOMAIN threads :
        /\ threads[t].scope <=> threads[t].pc \in {"in_scope", "sent", "error"}
        /\ threads[t].scope => threads[t].app = "Flask"
        /\ Terminated(t) => ~threads[t].scope
        /\ threads[t].app # "Flask" =>
              /\ threads[t].attempts = 0
              /\ delivered[threads[t].call] = 0
              /\ threads[t].pc \in {"started", "died"}

\* What C11 says of every step: the transport is called, and a message is
\* delivered, only by a unit that is inside its scope before and after the
\* call; the scope is entered before the call and left after it.
C11_Step ==
    \A t \in DOMAIN threads :
        /\ threads'[t].attempts # threads[t].attempts =>
              threads[t].scope /\ threads'[t].scope
        /\ delivered'[threads[t].call] # delivered[threads[t].call] =>
              \E d \in ThreadsOf(threads[t].call) :
                  /\ threads[d].scope /\ threads'[d].scope
                  /\ threads'[d].attempts = threads[d].attempts + 1
        /\ (~threads[t].scope /\ threads'[t].scope) => threads[t].attempts = 0
        /\ (threads[t].scope /\ ~threads'[t].scope) => threads[t].attempts = 1

\* C11: send_email delivers only inside the application scope it entered: it
\* enters the scope before the transport call and leaves it afterwards, and
\* when no scope can be entered it raises without any delivery attempt.
C11_DeliveryInScope ==
    /\ []C11_State
    /\ [][C11_Step]_vars

\* C11 witness: one unit delivered its message inside its scope and left it;
\* another, given no application, raised without calling the transport.
C11_Witness ==
    \E t1, t2 \in DOMAIN threads :
        /\ threads[t1].pc = "done" /\ ~threads[t1].scope
        /\ threads[t1].attempts = 1 /\ delivered[threads[t1].call] = 1
        /\ threads[t2].app # "Flask" /\ threads[t2].pc = "died"
        /\ threads[t2].attempts = 0 /\ delivered[threads[t2].call] = 0
====
